---- MODULE Spec2Model ----
(***************************************************************************)
(* Property-management backend: the application-approval workflow         *)
(* (controllers/applicationControllers.ts) and the payment / deposit      *)
(* ledger (controllers/paymentControllers.ts) over the relational store   *)
(* declared in prisma/schema.prisma.                                      *)
(*                                                                         *)
(* Every handler is an async function: the code between two awaits runs   *)
(* atomically on the event loop, and each awaited data-store call is one  *)
(* step that other requests interleave with.  A request slot holds the    *)
(* handler's position (pc), its inputs and the values it has read.        *)
(*                                                                         *)
(* prisma.$transaction(async tx => ...) is an interactive transaction of  *)
(* the store (PostgreSQL, READ COMMITTED): its writes become visible      *)
(* together at commit or not at all, a row it has written stays locked    *)
(* until then, and its reads see the latest committed data.               *)
(***************************************************************************)
EXTENDS Integers, Sequences, FiniteSets, TLC

\* ---- bounds of the model ----
MaxInitBalance == 2
MaxAmount == 2
NumReqs == 2

Tenants == {"t1", "t2"}

\* A cognito id with no Tenant row.
NoSuchTenant == "t9"

\* No id: a null tenantCognitoId, a request without req.user.
NoUser == "none"

\* req.user.id as the routes' authMiddleware leaves it: the token's subject,
\* never empty, the id of a tenant or not.
Users == Tenants \cup {NoSuchTenant}

\* The requests the server receives, numbered in the order of their arrival.
Reqs == 1..NumReqs

\* The managers' cognito ids.
Managers == {"m1", "m2"}

\* The seeded Property rows (schema.prisma Property: pricePerMonth,
\* securityDeposit, name, locationId, managerCognitoId), id = index.  Each has
\* its own Location row; the third, of another manager, has no application
\* and no lease.
SeedProperties ==
  << [pricePerMonth |-> 1, securityDeposit |-> 2, name |-> "a", locationId |-> 1,
      managerCognitoId |-> "m2", deleted |-> FALSE],
     [pricePerMonth |-> 1, securityDeposit |-> 3, name |-> "a", locationId |-> 2,
      managerCognitoId |-> "m2", deleted |-> FALSE],
     [pricePerMonth |-> 2, securityDeposit |-> 2, name |-> "a", locationId |-> 3,
      managerCognitoId |-> "m1", deleted |-> FALSE] >>

\* The seeded Location rows, id = index.
SeedLocations == << [address |-> "x"], [address |-> "x"], [address |-> "x"] >>

ApplicationStatus == {"Pending", "Denied", "Approved"}

\* Number(req.params.id) of a path parameter that is not a number.
NaN == -1

\* Number(req.params.id) for the ids of a table of n rows: a row's id, an id
\* of no row, or NaN.
PathIds(n) == (1..(n + 1)) \cup {NaN}

\* No destination: destinationType or destinationDetails null or missing.
NoDestination == "none"

\* What a withdrawal request's body gives as destinationType and destinationDetails.
Destinations == {NoDestination, "BankTransfer"}

VARIABLES
  Properties,   \* Property rows, id = index; a deleted row keeps its index
  locations,    \* Location rows, id = index
  balance,      \* Tenant.balance, by cognitoId
  apps,         \* Application rows, id = index
  leases,       \* Lease rows, id = index
  payments,     \* Payment rows, id = index
  propTenants,  \* Property.tenants ("TenantProperties" relation), by property id
  req,          \* the requests in flight, by slot
  credited,     \* history: how often approveDeposit has credited each payment
  ledgerGap,    \* history: committed balance writes minus committed Paid ledger writes
  pre,          \* history: the store when the running request started alone
  overlap       \* whether the clients send a request while another is being served

vars == << balance, apps, leases, payments, propTenants, req, credited, ledgerGap, pre,
           overlap, Properties, locations >>

Store == [balance |-> balance, apps |-> apps, leases |-> leases,
          payments |-> payments, propTenants |-> propTenants,
          Properties |-> Properties, locations |-> locations]

NoSnapshot == [owner |-> 0, store |-> << >>]

\* A request slot with no handler running.  made and debit are history: the
\* id of the Payment row the request has created and the amount it has taken
\* off a balance.
Idle == [op |-> "none", pc |-> "done", id |-> 0, status |-> "none", amount |-> 0,
         user |-> NoUser, tbal |-> -1, newLease |-> 0, resp |-> 0,
         dest |-> NoDestination, paid |-> 0, asText |-> FALSE,
         header |-> "none", sub |-> "", claim |-> "", role |-> "", called |-> FALSE,
         name |-> "", manager |-> NoUser, newLocation |-> 0, tenant |-> NoUser,
         msg |-> "", date |-> 0, result |-> << >>, made |-> 0, debit |-> 0,
         docAmount |-> << >>, docStatus |-> ""]

Application(t, p) ==
  [status |-> "Pending", propertyId |-> p, tenantCognitoId |-> t, leaseId |-> 0]

Lease(t, p) ==
  [rent |-> Properties[p].pricePerMonth, deposit |-> Properties[p].securityDeposit,
   propertyId |-> p, tenantCognitoId |-> t]

PendingDeposit(leaseId, amount, t) ==
  [leaseId |-> leaseId, amountDue |-> amount, amountPaid |-> 0,
   paymentStatus |-> "Pending", type |-> "Deposit", isApproved |-> FALSE,
   tenantCognitoId |-> t, destination |-> NoDestination, paymentDate |-> 1]

\* new Date(): the server's clock, read when a row is created; it has advanced
\* since the row before was created.
Now == Len(payments) + 1

\* A seeded data store: two tenants with some balance, two pending applications
\* of t1, one lease of t2 and one deposit request of t2 awaiting approval.
Init ==
  /\ Properties = SeedProperties
  /\ locations = SeedLocations
  /\ balance \in [Tenants -> 0..MaxInitBalance]
  /\ apps = << Application("t1", 1), Application("t1", 2) >>
  /\ leases = << Lease("t2", 1) >>
  /\ payments = << PendingDeposit(1, 1, "t2") >>
  /\ propTenants = [p \in DOMAIN Properties |-> {}]
  /\ req = [r \in Reqs |-> Idle]
  /\ credited = << 0 >>
  /\ ledgerGap = 0
  /\ pre = NoSnapshot
  /\ overlap \in BOOLEAN

\* ---- the requests ----
\* Request r arrives once, after the requests numbered before it have arrived.
Free(r) ==
  /\ req[r] = Idle
  /\ r > 1 => req[r - 1] # Idle

InFlight(o) == req[o].pc \notin {"done", "hung"}

Alone(r) == \A o \in Reqs \ {r} : ~InFlight(o)

\* pre: the store as the request found it, kept while it runs alone.
Snapshot(r) == IF Alone(r) THEN [owner |-> r, store |-> Store] ELSE NoSnapshot

Begin(r, rec) ==
  /\ Free(r)
  /\ overlap \/ Alone(r)
  /\ req' = [req EXCEPT ![r] = rec]
  /\ pre' = Snapshot(r)
  /\ UNCHANGED overlap

Goto(r, label) == req' = [req EXCEPT ![r].pc = label]

Respond(r, code) == req' = [req EXCEPT ![r].pc = "done", ![r].resp = code]

\* The message of the error a failing call throws: what the data store or the
\* third party says went wrong.
ErrorTexts == {"e1", "e2"}

\* What prisma says of an argument of the wrong type, and of a row or a
\* related row that is not there.
ValidationError == "Argument id is missing"
NotFoundError == "Record not found"

\* The handlers whose catch block answers { message: err.message } or a text
\* with err.message in it.
SendsErrorMessage ==
  {"createApplication", "createDepositRequest", "listPendingDeposits", "approveDeposit",
   "declineDeposit", "withdrawFunds", "fundTenant", "getProperty", "createProperty",
   "updateProperty", "deleteProperty"}

\* The message of the 500 body a handler's catch block sends for the error err.
CatchMessage(op, err) ==
  IF op \in SendsErrorMessage THEN err ELSE "Internal server error."

\* A call inside the handler's try block throws err: the catch block answers 500.
Throw(r, err) ==
  req' = [req EXCEPT ![r].pc = "done", ![r].resp = 500,
                     ![r].msg = CatchMessage(req[r].op, err)]

\* A row written inside a transaction is locked until the transaction ends.
TenantLocked(r, t) ==
  \E o \in Reqs \ {r} :
    /\ req[o].pc \in {"wf_txCreatePayment", "ft_txCreatePayment"}
    /\ req[o].user = t

PaymentLocked(r, id) ==
  \E o \in Reqs \ {r} :
    /\ req[o].pc \in {"ad_txFindTenant", "ad_txUpdateTenant"}
    /\ req[o].id = id

\* ---- POST /applications (createApplication) ----

\* The body has no status.
NoStatus == "none"

\* Entry up to the first await: the body's status, propertyId and tenantCognitoId.
createApplication(r) ==
  \E status \in ApplicationStatus \cup {NoStatus}, propertyId \in 1..(Len(Properties) + 1),
     tenantCognitoId \in Tenants \cup {NoSuchTenant} :
    /\ Begin(r, [Idle EXCEPT !.op = "createApplication", !.pc = "ca_findProperty",
                             !.status = status, !.id = propertyId,
                             !.tenant = tenantCognitoId])
    /\ UNCHANGED << balance, apps, leases, payments, propTenants, credited, ledgerGap, Properties, locations >>

\* const property = await prisma.property.findUnique(...); 404 when absent.
ca_findProperty(r) ==
  /\ req[r].pc = "ca_findProperty"
  /\ IF req[r].id \in DOMAIN Properties /\ ~Properties[req[r].id].deleted
       THEN Goto(r, "ca_create") ELSE Respond(r, 404)
  /\ UNCHANGED << balance, apps, leases, payments, propTenants, credited, ledgerGap, pre, overlap, Properties, locations >>

\* The Application row created: data: { status, property, tenant, ... }, no lease.
NewApplication(status, propertyId, tenantCognitoId) ==
  [status |-> status, propertyId |-> propertyId, tenantCognitoId |-> tenantCognitoId,
   leaseId |-> 0]

\* const newApp = await prisma.application.create(...); 201.  Throws without a
\* status (a required column with no default) and when the tenant to connect
\* or the property has gone.
ca_create(r) ==
  /\ req[r].pc = "ca_create"
  /\ IF \/ req[r].status = NoStatus
        \/ req[r].tenant \notin Tenants
        \/ req[r].id \notin DOMAIN Properties
        \/ Properties[req[r].id].deleted
       THEN Throw(r, NotFoundError) /\ UNCHANGED apps
       ELSE /\ apps' = Append(apps, NewApplication(req[r].status, req[r].id, req[r].tenant))
            /\ Respond(r, 201)
  /\ UNCHANGED << balance, leases, payments, propTenants, credited, ledgerGap, pre, overlap, Properties, locations >>

\* ---- PUT /applications/:id/status (updateApplicationStatus) ----

\* Entry up to the first await: read the id and the status from the request.
updateApplicationStatus(r) ==
  \E id \in PathIds(Len(apps)), status \in ApplicationStatus :
    /\ Begin(r, [Idle EXCEPT !.op = "updateApplicationStatus", !.pc = "uas_findApp",
                             !.id = id, !.status = status])
    /\ UNCHANGED << balance, apps, leases, payments, propTenants, credited, ledgerGap, Properties, locations >>

\* const app = await prisma.application.findUnique(...); 404 when absent.
\* The call throws for an id that is NaN (caught: 500).
uas_findApp(r) ==
  /\ req[r].pc = "uas_findApp"
  /\ IF req[r].id = NaN THEN Throw(r, ValidationError)
     ELSE IF req[r].id \notin DOMAIN apps
       THEN Respond(r, 404)
       ELSE IF req[r].status = "Approved"
              THEN Goto(r, "uas_findTenant")
              ELSE Goto(r, "uas_updateStatus")
  /\ UNCHANGED << balance, apps, leases, payments, propTenants, credited, ledgerGap, pre, overlap, Properties, locations >>

\* const tenant = await prisma.tenant.findUnique(...); debit only if it covers the price.
uas_findTenant(r) ==
  /\ req[r].pc = "uas_findTenant"
  /\ LET app == apps[req[r].id]
         bal == balance[app.tenantCognitoId]
     IN req' = [req EXCEPT ![r].tbal = bal,
                           ![r].pc = IF bal >= Properties[app.propertyId].pricePerMonth
                                       THEN "uas_debit" ELSE "uas_createLease"]
  /\ UNCHANGED << balance, apps, leases, payments, propTenants, credited, ledgerGap, pre, overlap, Properties, locations >>

\* Mutant: the debit takes the price twice.
DebitedBalance_TakesTwice(tbal, price) == tbal - 2 * price

\* The balance written by the debit: the balance read earlier minus the price.
DebitedBalance(tbal, price) == tbal - price

\* await prisma.tenant.update({ data: { balance: tenant.balance - price } })
uas_debit(r) ==
  /\ req[r].pc = "uas_debit"
  /\ LET app == apps[req[r].id]
         t == app.tenantCognitoId
     IN /\ ~TenantLocked(r, t)
        /\ balance' = [balance EXCEPT
                         ![t] = DebitedBalance(req[r].tbal, Properties[app.propertyId].pricePerMonth)]
  /\ ledgerGap' = ledgerGap + 1
  /\ req' = [req EXCEPT ![r].pc = "uas_createLease",
                        ![r].debit = Properties[apps[req[r].id].propertyId].pricePerMonth]
  /\ UNCHANGED << apps, leases, payments, propTenants, credited, pre, overlap, Properties, locations >>

\* Mutant: the lease takes the security deposit as its rent.
NewLease_RentFromDeposit(app) ==
  [rent |-> Properties[app.propertyId].securityDeposit,
   deposit |-> Properties[app.propertyId].securityDeposit,
   propertyId |-> app.propertyId,
   tenantCognitoId |-> app.tenantCognitoId]

\* The Lease row created on approval.
NewLease(app) ==
  [rent |-> Properties[app.propertyId].pricePerMonth,
   deposit |-> Properties[app.propertyId].securityDeposit,
   propertyId |-> app.propertyId,
   tenantCognitoId |-> app.tenantCognitoId]

\* const newLease = await prisma.lease.create(...)
uas_createLease(r) ==
  /\ req[r].pc = "uas_createLease"
  /\ leases' = Append(leases, NewLease(apps[req[r].id]))
  /\ req' = [req EXCEPT ![r].newLease = Len(leases) + 1, ![r].pc = "uas_createPayment"]
  /\ UNCHANGED << balance, apps, payments, propTenants, credited, ledgerGap, pre, overlap, Properties, locations >>

\* The initial rent Payment row created on approval.
InitialPayment(app, leaseId) ==
  [leaseId |-> leaseId,
   amountDue |-> Properties[app.propertyId].pricePerMonth,
   amountPaid |-> Properties[app.propertyId].pricePerMonth,
   paymentStatus |-> "Paid", type |-> "Rent", isApproved |-> TRUE,
   tenantCognitoId |-> NoUser, destination |-> NoDestination, paymentDate |-> Now]

\* await prisma.payment.create(...)
uas_createPayment(r) ==
  /\ req[r].pc = "uas_createPayment"
  /\ payments' = Append(payments, InitialPayment(apps[req[r].id], req[r].newLease))
  /\ credited' = Append(credited, 0)
  /\ ledgerGap' = ledgerGap - 1
  /\ req' = [req EXCEPT ![r].pc = "uas_connect", ![r].made = Len(payments) + 1]
  /\ UNCHANGED << balance, apps, leases, propTenants, pre, overlap, Properties, locations >>

\* await prisma.property.update({ data: { tenants: { connect: ... } } })
uas_connect(r) ==
  /\ req[r].pc = "uas_connect"
  /\ LET app == apps[req[r].id]
     IN propTenants' = [propTenants EXCEPT ![app.propertyId] = @ \cup {app.tenantCognitoId}]
  /\ Goto(r, "uas_updateApp")
  /\ UNCHANGED << balance, apps, leases, payments, credited, ledgerGap, pre, overlap, Properties, locations >>

\* The Application row after approval: data: { status, leaseId: newLease.id }.
ApprovedApplication(app, status, leaseId) ==
  [app EXCEPT !.status = status, !.leaseId = leaseId]

\* await prisma.application.update({ data: { status, leaseId: newLease.id } })
uas_updateApp(r) ==
  /\ req[r].pc = "uas_updateApp"
  /\ apps' = [apps EXCEPT ![req[r].id] = ApprovedApplication(@, req[r].status, req[r].newLease)]
  /\ Goto(r, "uas_refetch")
  /\ UNCHANGED << balance, leases, payments, propTenants, credited, ledgerGap, pre, overlap, Properties, locations >>

\* Mutant: a non-Approved update also drops the lease reference.
StatusOnly_ClearsLease(app, status) == [app EXCEPT !.status = status, !.leaseId = 0]

\* The Application row after a non-Approved update: data: { status }.
StatusOnly(app, status) == [app EXCEPT !.status = status]

\* else branch: await prisma.application.update({ data: { status } })
uas_updateStatus(r) ==
  /\ req[r].pc = "uas_updateStatus"
  /\ apps' = [apps EXCEPT ![req[r].id] = StatusOnly(@, req[r].status)]
  /\ Goto(r, "uas_refetch")
  /\ UNCHANGED << balance, leases, payments, propTenants, credited, ledgerGap, pre, overlap, Properties, locations >>

\* const updatedApp = await prisma.application.findUnique(...); res.json(updatedApp)
uas_refetch(r) ==
  /\ req[r].pc = "uas_refetch"
  /\ Respond(r, 200)
  /\ UNCHANGED << balance, apps, leases, payments, propTenants, credited, ledgerGap, pre, overlap, Properties, locations >>

\* ---- numbers as text ----

\* A number as the text of a form field: its decimal digits.
RECURSIVE DecimalText(_)
DecimalText(n) ==
  IF n < 10 THEN << n >> ELSE Append(DecimalText(n \div 10), n % 10)

\* parseFloat of a text of digits.
RECURSIVE parseFloat(_)
parseFloat(text) ==
  IF Len(text) = 0 THEN 0
  ELSE 10 * parseFloat(SubSeq(text, 1, Len(text) - 1)) + text[Len(text)]

\* ---- authMiddleware(allowedRoles) and the routes built with it ----

\* The Authorization header of a request: absent, a scheme with no token after
\* it, a token jwt.decode returns null for, or a token with a payload.
Headers == {"none", "Bearer", "Bearer garbage", "Bearer jwt"}

\* The payload's sub and custom:role claims ("" when absent).
Subjects == {"", "m1"}
RoleClaims == {"", "Manager", "tenant"}

Credentials ==
  {[header |-> h, sub |-> "", claim |-> ""] : h \in Headers \ {"Bearer jwt"}}
    \cup {[header |-> "Bearer jwt", sub |-> u, claim |-> c] : u \in Subjects, c \in RoleClaims}

\* String.prototype.toLowerCase on the role names.
toLowerCase(str) ==
  CASE str = "Manager" -> "manager"
    [] str = "Tenant" -> "tenant"
    [] str = "Admin" -> "admin"
    [] OTHER -> str

\* Mutant: the middleware lets every decoded token through, whatever its role.
authMiddleware_NoRoleCheck(allowedRoles, cred) ==
  IF cred.header = "none" THEN [status |-> 401, id |-> NoUser, role |-> ""]
  ELSE IF cred.header = "Bearer" THEN [status |-> 401, id |-> NoUser, role |-> ""]
  ELSE IF cred.header = "Bearer garbage" \/ cred.sub = ""
    THEN [status |-> 400, id |-> NoUser, role |-> ""]
  ELSE [status |-> 0, id |-> cred.sub, role |-> toLowerCase(cred.claim)]

\* The middleware's outcome: the status it answers with, or status 0 and the
\* req.user it attaches when it calls next().
authMiddleware(allowedRoles, cred) ==
  LET roles == {toLowerCase(x) : x \in allowedRoles}
      userRole == toLowerCase(cred.claim)
  IN IF cred.header = "none" THEN [status |-> 401, id |-> NoUser, role |-> ""]
     ELSE IF cred.header = "Bearer" THEN [status |-> 401, id |-> NoUser, role |-> ""]
     ELSE IF cred.header = "Bearer garbage" \/ cred.sub = ""
       THEN [status |-> 400, id |-> NoUser, role |-> ""]
     ELSE IF userRole \notin roles THEN [status |-> 403, id |-> NoUser, role |-> ""]
     ELSE [status |-> 0, id |-> cred.sub, role |-> userRole]

\* The allow-lists the routers give the middleware, by handler.
AllowedRoles ==
  [createPayment |-> {"tenant"},
   createDepositRequest |-> {"tenant"},
   listPendingDeposits |-> {"manager"},
   approveDeposit |-> {"manager"},
   declineDeposit |-> {"manager"},
   withdrawFunds |-> {"tenant"},
   fundTenant |-> {"manager"},
   getPaymentsByTenant |-> {"tenant", "manager"},
   downloadReceipt |-> {"tenant", "manager"},
   getLeases |-> {"manager", "tenant"},
   getLeasePayments |-> {"manager", "tenant"},
   getLeasesByPropertyId |-> {"manager", "tenant"},
   getProperty |-> {"manager", "tenant"},
   createProperty |-> {"manager"},
   updateProperty |-> {"manager"},
   deleteProperty |-> {"manager"}]

\* A request as it arrives, with its credentials.
Arrived(op, cred) ==
  [Idle EXCEPT !.op = op, !.header = cred.header, !.sub = cred.sub, !.claim = cred.claim]

\* router.<method>(path, authMiddleware(roles), handler): the request after the
\* middleware, answered by it or handed to the handler with req.user set.
Guarded(op, cred) ==
  LET a == authMiddleware(AllowedRoles[op], cred)
  IN IF a.status # 0 THEN [Arrived(op, cred) EXCEPT !.resp = a.status]
     ELSE [Arrived(op, cred) EXCEPT !.user = a.id, !.role = a.role, !.called = TRUE]

\* router.<method>(path, handler): the handler is called with no req.user.
Unguarded(op, cred) == [Arrived(op, cred) EXCEPT !.called = TRUE]

\* The handler, if called, goes on with what it does up to its first await.
Enter(r, rec, entered) ==
  /\ Begin(r, IF rec.called THEN entered ELSE rec)
  /\ UNCHANGED << balance, apps, leases, payments, propTenants, credited, ledgerGap, Properties, locations >>

\* ---- GET /payments/deposits/pending (listPendingDeposits) ----

listPendingDeposits(r) ==
  \E cred \in Credentials :
    LET rec == Guarded("listPendingDeposits", cred)
    IN Enter(r, rec, [rec EXCEPT !.pc = "lpd_findMany"])

\* const deposits = await prisma.payment.findMany(...); res.json(deposits)
lpd_findMany(r) ==
  /\ req[r].pc = "lpd_findMany"
  /\ Respond(r, 200)
  /\ UNCHANGED << balance, apps, leases, payments, propTenants, credited, ledgerGap, pre, overlap, Properties, locations >>

\* ---- GET /leases (getLeases) ----

getLeases(r) ==
  \E cred \in Credentials :
    LET rec == Guarded("getLeases", cred)
    IN Enter(r, rec, [rec EXCEPT !.pc = "gl_findMany"])

\* const leases = await prisma.lease.findMany(...); 200
gl_findMany(r) ==
  /\ req[r].pc = "gl_findMany"
  /\ Respond(r, 200)
  /\ UNCHANGED << balance, apps, leases, payments, propTenants, credited, ledgerGap, pre, overlap, Properties, locations >>

\* ---- GET /leases/:id/payments (getLeasePayments) ----

\* Entry: 400 when the id is not a number.
getLeasePayments(r) ==
  \E cred \in Credentials, leaseId \in PathIds(Len(leases)) :
    LET rec == [Guarded("getLeasePayments", cred) EXCEPT !.id = leaseId]
    IN Enter(r, rec, IF leaseId = NaN THEN [rec EXCEPT !.resp = 400]
                     ELSE [rec EXCEPT !.pc = "glp_findMany"])

\* const payments = await prisma.payment.findMany({ where: { leaseId } }); 200
glp_findMany(r) ==
  /\ req[r].pc = "glp_findMany"
  /\ Respond(r, 200)
  /\ UNCHANGED << balance, apps, leases, payments, propTenants, credited, ledgerGap, pre, overlap, Properties, locations >>

\* ---- GET /properties/:id/leases (getLeasesByPropertyId) ----

\* Entry: 400 when the id is not a number.
getLeasesByPropertyId(r) ==
  \E cred \in Credentials, propertyId \in PathIds(Len(Properties)) :
    LET rec == [Guarded("getLeasesByPropertyId", cred) EXCEPT !.id = propertyId]
    IN Enter(r, rec, IF propertyId = NaN THEN [rec EXCEPT !.resp = 400]
                     ELSE [rec EXCEPT !.pc = "glbp_findMany"])

\* const leases = await prisma.lease.findMany({ where: { propertyId } }); 200
glbp_findMany(r) ==
  /\ req[r].pc = "glbp_findMany"
  /\ Respond(r, 200)
  /\ UNCHANGED << balance, apps, leases, payments, propTenants, credited, ledgerGap, pre, overlap, Properties, locations >>

\* ---- GET /payments/:id/receipt (downloadReceipt) ----

\* Entry up to the first await: the id is not looked at.
downloadReceipt(r) ==
  \E cred \in Credentials, paymentId \in PathIds(Len(payments)) :
    LET rec == [Guarded("downloadReceipt", cred) EXCEPT !.id = paymentId]
    IN Enter(r, rec, [rec EXCEPT !.pc = "dr_findPayment"])

\* The decimal point in a text of digits.
Point == 10

\* Number.prototype.toFixed(digits) of a whole amount: its decimal digits, the
\* point, and digits zeros.
toFixed(x, digits) == DecimalText(x) \o << Point >> \o [i \in 1..digits |-> 0]

\* const payment = await prisma.payment.findUnique(...); 404 when absent, else
\* the PDF is written to the response: the "Amount Paid" and "Payment Status"
\* rows after the "Bill To" block, which reads payment.lease!.tenant.  The call
\* throws for an id that is NaN (caught: 500).  For a payment with no lease
\* the "Bill To" block throws a TypeError: the catch answers 500 if no header
\* has been sent yet and otherwise ends the response where it is.
dr_findPayment(r) ==
  /\ req[r].pc = "dr_findPayment"
  /\ IF req[r].id = NaN THEN Throw(r, ValidationError)
     ELSE IF req[r].id \notin DOMAIN payments THEN Respond(r, 404)
     ELSE IF payments[req[r].id].leaseId = 0
       THEN \E headersSent \in BOOLEAN :
              IF headersSent THEN Respond(r, 200) ELSE Throw(r, "TypeError")
       ELSE req' = [req EXCEPT ![r].pc = "done", ![r].resp = 200,
                               ![r].docAmount = toFixed(payments[req[r].id].amountPaid, 2),
                               ![r].docStatus = payments[req[r].id].paymentStatus]
  /\ UNCHANGED << balance, apps, leases, payments, propTenants, credited, ledgerGap, pre, overlap, Properties, locations >>

\* ---- GET /payments/tenant/:tenantCognitoId (getPaymentsByTenant) ----

\* Entry up to the first await: the path's tenantCognitoId.
getPaymentsByTenant(r) ==
  \E cred \in Credentials, tenantCognitoId \in Tenants \cup {NoSuchTenant} :
    LET rec == [Guarded("getPaymentsByTenant", cred) EXCEPT !.tenant = tenantCognitoId]
    IN Enter(r, rec, [rec EXCEPT !.pc = "gpt_findMany"])

\* where: { tenantCognitoId }: the ids of the rows with this value in the
\* tenantCognitoId column.
WhereTenant(tenantCognitoId) ==
  {id \in DOMAIN payments : payments[id].tenantCognitoId = tenantCognitoId}

\* orderBy: { paymentDate: "desc" }: the orders the store may return the rows
\* with these ids in (rows of one date in any order).
OrderByPaymentDateDesc(ids) ==
  {seq \in [1..Cardinality(ids) -> ids] :
     /\ \A i, j \in DOMAIN seq : i # j => seq[i] # seq[j]
     /\ \A i, j \in DOMAIN seq :
          i < j => payments[seq[i]].paymentDate >= payments[seq[j]].paymentDate}

\* const payments = await prisma.payment.findMany(...); res.status(200).json(payments)
gpt_findMany(r) ==
  /\ req[r].pc = "gpt_findMany"
  /\ \E found \in OrderByPaymentDateDesc(WhereTenant(req[r].tenant)) :
       req' = [req EXCEPT ![r].pc = "done", ![r].resp = 200, ![r].result = found]
  /\ UNCHANGED << balance, apps, leases, payments, propTenants, credited, ledgerGap, pre, overlap, Properties, locations >>

\* ---- GET /leases/:id/agreement (downloadAgreement) ----

\* The route has no middleware.  Entry: 400 when the id is not a number.
downloadAgreement(r) ==
  \E cred \in Credentials, leaseId \in PathIds(Len(leases)) :
    LET rec == [Unguarded("downloadAgreement", cred) EXCEPT !.id = leaseId]
    IN Enter(r, rec, IF leaseId = NaN THEN [rec EXCEPT !.resp = 400]
                     ELSE [rec EXCEPT !.pc = "da_findLease"])

\* const lease = await prisma.lease.findUnique(...); 404 when absent, else the
\* PDF is streamed.
da_findLease(r) ==
  /\ req[r].pc = "da_findLease"
  /\ IF req[r].id \notin DOMAIN leases THEN Respond(r, 404) ELSE Respond(r, 200)
  /\ UNCHANGED << balance, apps, leases, payments, propTenants, credited, ledgerGap, pre, overlap, Properties, locations >>

\* ---- GET /properties/:id (getProperty) ----

\* The row with this id, if it is in the table.
PropertyExists(id) == id \in DOMAIN Properties /\ ~Properties[id].deleted

\* Entry: 400 when the id is not a number.
getProperty(r) ==
  \E cred \in Credentials, propertyId \in PathIds(Len(Properties)) :
    LET rec == [Guarded("getProperty", cred) EXCEPT !.id = propertyId]
    IN Enter(r, rec, IF propertyId = NaN THEN [rec EXCEPT !.resp = 400]
                     ELSE [rec EXCEPT !.pc = "gp_findProperty"])

\* const property = await prisma.property.findUnique(...); 404 when absent.
gp_findProperty(r) ==
  /\ req[r].pc = "gp_findProperty"
  /\ IF PropertyExists(req[r].id) THEN Goto(r, "gp_queryCoords") ELSE Respond(r, 404)
  /\ UNCHANGED << balance, apps, leases, payments, propTenants, credited, ledgerGap, pre, overlap, Properties, locations >>

\* const coordsResult = await prisma.$queryRaw(...); 200
gp_queryCoords(r) ==
  /\ req[r].pc = "gp_queryCoords"
  /\ Respond(r, 200)
  /\ UNCHANGED << balance, apps, leases, payments, propTenants, credited, ledgerGap, pre, overlap, Properties, locations >>

\* ---- POST /properties (createProperty) ----

\* A cognito id with no Manager row.
NoSuchManager == "m9"

\* Entry: the body's managerCognitoId, and its longitude and latitude when
\* both parse; without them the address is geocoded.
createProperty(r) ==
  \E cred \in Credentials, managerCognitoId \in Managers \cup {NoSuchManager},
     coordinates \in BOOLEAN :
    LET rec == [Guarded("createProperty", cred) EXCEPT !.manager = managerCognitoId]
    IN Enter(r, rec, [rec EXCEPT !.pc = IF coordinates THEN "crp_insertLocation"
                                        ELSE "crp_geocode"])

\* const geoResp = await axios.get(geocodeURL, ...): coordinates, no result, or
\* a failure (caught and logged); without coordinates the answer is 400.
crp_geocode(r) ==
  /\ req[r].pc = "crp_geocode"
  /\ \E found \in BOOLEAN :
       IF found THEN Goto(r, "crp_insertLocation") ELSE Respond(r, 400)
  /\ UNCHANGED << balance, apps, leases, payments, propTenants, credited, ledgerGap, pre, overlap, Properties, locations >>

\* const newLocationRows = await prisma.$queryRawUnsafe(insertSql, ...)
crp_insertLocation(r) ==
  /\ req[r].pc = "crp_insertLocation"
  /\ locations' = Append(locations, [address |-> "y"])
  /\ req' = [req EXCEPT ![r].newLocation = Len(locations) + 1, ![r].pc = "crp_createProperty"]
  /\ UNCHANGED << balance, apps, leases, payments, propTenants, credited, ledgerGap, pre, overlap, Properties >>

\* The Property row created: the body's columns, the new location, the body's manager.
NewProperty(locationId, managerCognitoId) ==
  [pricePerMonth |-> 1, securityDeposit |-> 2, name |-> "a", locationId |-> locationId,
   managerCognitoId |-> managerCognitoId, deleted |-> FALSE]

\* const newProperty = await prisma.property.create(...); 201.  The insert
\* throws when managerCognitoId names no Manager (foreign key).
crp_createProperty(r) ==
  /\ req[r].pc = "crp_createProperty"
  /\ IF req[r].manager \notin Managers
       THEN Throw(r, NotFoundError) /\ UNCHANGED << Properties, propTenants >>
       ELSE /\ Properties' = Append(Properties, NewProperty(req[r].newLocation, req[r].manager))
            /\ propTenants' = Append(propTenants, {})
            /\ Respond(r, 201)
  /\ UNCHANGED << balance, apps, leases, payments, credited, ledgerGap, pre, overlap, locations >>

\* ---- PUT /properties/:id (updateProperty) ----

\* The names a request's body gives the property.
Names == {"b"}

\* Entry: 400 when the id is not a number.
updateProperty(r) ==
  \E cred \in Credentials, propertyId \in PathIds(Len(Properties)), name \in Names :
    LET rec == [Guarded("updateProperty", cred) EXCEPT !.id = propertyId, !.name = name]
    IN Enter(r, rec, IF propertyId = NaN THEN [rec EXCEPT !.resp = 400]
                     ELSE [rec EXCEPT !.pc = "up_findProperty"])

\* const existing = await prisma.property.findUnique(...); 404 when absent.
up_findProperty(r) ==
  /\ req[r].pc = "up_findProperty"
  /\ IF PropertyExists(req[r].id) THEN Goto(r, "up_update") ELSE Respond(r, 404)
  /\ UNCHANGED << balance, apps, leases, payments, propTenants, credited, ledgerGap, pre, overlap, Properties, locations >>

\* const result = await prisma.property.update({ data: toUpdate }); 200.
\* Throws when the row has gone since it was found.
up_update(r) ==
  /\ req[r].pc = "up_update"
  /\ IF PropertyExists(req[r].id)
       THEN /\ Properties' = [Properties EXCEPT ![req[r].id].name = req[r].name]
            /\ Respond(r, 200)
       ELSE Throw(r, NotFoundError) /\ UNCHANGED Properties
  /\ UNCHANGED << balance, apps, leases, payments, propTenants, credited, ledgerGap, pre, overlap, locations >>

\* ---- DELETE /properties/:id (deleteProperty) ----

\* Entry: 400 when the id is not a number.
deleteProperty(r) ==
  \E cred \in Credentials, propertyId \in PathIds(Len(Properties)) :
    LET rec == [Guarded("deleteProperty", cred) EXCEPT !.id = propertyId]
    IN Enter(r, rec, IF propertyId = NaN THEN [rec EXCEPT !.resp = 400]
                     ELSE [rec EXCEPT !.pc = "dp_findProperty"])

\* const existing = await prisma.property.findUnique(...); 404 when absent.
dp_findProperty(r) ==
  /\ req[r].pc = "dp_findProperty"
  /\ IF PropertyExists(req[r].id) THEN Goto(r, "dp_delete") ELSE Respond(r, 404)
  /\ UNCHANGED << balance, apps, leases, payments, propTenants, credited, ledgerGap, pre, overlap, Properties, locations >>

\* An Application or a Lease row refers to the property (required relations).
Referenced(id) ==
  \/ \E a \in DOMAIN apps : apps[a].propertyId = id
  \/ \E l \in DOMAIN leases : leases[l].propertyId = id

\* await prisma.property.delete(...); 204.  Throws when the row has gone or
\* is still referred to.
dp_delete(r) ==
  /\ req[r].pc = "dp_delete"
  /\ IF PropertyExists(req[r].id) /\ ~Referenced(req[r].id)
       THEN /\ Properties' = [Properties EXCEPT ![req[r].id].deleted = TRUE]
            /\ propTenants' = [propTenants EXCEPT ![req[r].id] = {}]
            /\ Respond(r, 204)
       ELSE Throw(r, NotFoundError) /\ UNCHANGED << Properties, propTenants >>
  /\ UNCHANGED << balance, apps, leases, payments, credited, ledgerGap, pre, overlap, locations >>

\* ---- POST /payments (createPayment) ----

\* The amounts a client submits as amountDue and as amountPaid.
AmountsDue == {2, 10}
AmountsPaid == {0, 2, 10}

\* The paymentDate a client submits: before every row the server has dated,
\* or after them.
PaymentDates == {0, 9}

\* a < b on two strings: by code units from the left, a proper prefix first.
RECURSIVE TextLess(_, _)
TextLess(a, b) ==
  IF Len(b) = 0 THEN FALSE
  ELSE IF Len(a) = 0 THEN TRUE
  ELSE IF a[1] # b[1] THEN a[1] < b[1]
  ELSE TextLess(Tail(a), Tail(b))

\* amountPaid >= amountDue on the values of req.body: numbers when the body
\* is JSON with numbers, strings when it is a form or JSON with strings.
\* Two strings compare as strings, anything else as numbers.
GreaterOrEqual(paid, due, asText) ==
  IF asText THEN ~TextLess(DecimalText(paid), DecimalText(due)) ELSE paid >= due

\* let paymentStatus = "Pending"; if (amountPaid >= amountDue) ... "Paid";
\* else if (amountPaid > 0) ... "PartiallyPaid" (a string against 0 compares
\* as a number).
DeterminePaymentStatus(paid, due, asText) ==
  IF GreaterOrEqual(paid, due, asText) THEN "Paid"
  ELSE IF paid > 0 THEN "PartiallyPaid"
  ELSE "Pending"

\* Entry up to the first await: the body's leaseId, amountDue, amountPaid and
\* paymentDate.
createPayment(r) ==
  \E leaseId \in 1..(Len(leases) + 1), due \in AmountsDue, paid \in AmountsPaid,
     asText \in BOOLEAN, paymentDate \in PaymentDates :
    /\ Begin(r, [Idle EXCEPT !.op = "createPayment", !.pc = "cp_findLease", !.id = leaseId,
                             !.amount = due, !.paid = paid, !.asText = asText,
                             !.date = paymentDate])
    /\ UNCHANGED << balance, apps, leases, payments, propTenants, credited, ledgerGap, Properties, locations >>

\* const lease = await prisma.lease.findUnique(...); 400 when absent.
cp_findLease(r) ==
  /\ req[r].pc = "cp_findLease"
  /\ IF req[r].id \notin DOMAIN leases THEN Respond(r, 400) ELSE Goto(r, "cp_create")
  /\ UNCHANGED << balance, apps, leases, payments, propTenants, credited, ledgerGap, pre, overlap, Properties, locations >>

\* The Payment row of createPayment; type and isApproved take the schema's defaults.
NewPayment(leaseId, due, paid, asText, paymentDate) ==
  [leaseId |-> leaseId,
   amountDue |-> IF asText THEN parseFloat(DecimalText(due)) ELSE due,
   amountPaid |-> IF asText THEN parseFloat(DecimalText(paid)) ELSE paid,
   paymentStatus |-> DeterminePaymentStatus(paid, due, asText),
   type |-> "Rent", isApproved |-> FALSE,
   tenantCognitoId |-> NoUser, destination |-> NoDestination, paymentDate |-> paymentDate]

\* const newPayment = await prisma.payment.create(...); 201
cp_create(r) ==
  /\ req[r].pc = "cp_create"
  /\ payments' = Append(payments, NewPayment(req[r].id, req[r].amount, req[r].paid,
                                             req[r].asText, req[r].date))
  /\ credited' = Append(credited, 0)
  /\ req' = [req EXCEPT ![r].pc = "done", ![r].resp = 201, ![r].made = Len(payments) + 1]
  /\ UNCHANGED << balance, apps, leases, propTenants, ledgerGap, pre, overlap, Properties, locations >>

\* ---- POST /payments/deposit-request (createDepositRequest) ----

\* Entry: 401 without an authenticated user, 400 unless leaseId > 0 and amount > 0.
createDepositRequest(r) ==
  \E user \in Users, leaseId \in 0..(Len(leases) + 1), amount \in 0..MaxAmount :
    /\ LET rec == [Idle EXCEPT !.op = "createDepositRequest", !.user = user,
                               !.id = leaseId, !.amount = amount]
       IN Begin(r, IF user = NoUser THEN [rec EXCEPT !.resp = 401]
                   ELSE IF leaseId <= 0 \/ amount <= 0 THEN [rec EXCEPT !.resp = 400]
                   ELSE [rec EXCEPT !.pc = "cdr_findLease"])
    /\ UNCHANGED << balance, apps, leases, payments, propTenants, credited, ledgerGap, Properties, locations >>

\* const lease = await prisma.lease.findUnique(...); 400 unless it is the user's lease.
cdr_findLease(r) ==
  /\ req[r].pc = "cdr_findLease"
  /\ IF req[r].id \notin DOMAIN leases \/ leases[req[r].id].tenantCognitoId # req[r].user
       THEN Respond(r, 400)
       ELSE Goto(r, "cdr_create")
  /\ UNCHANGED << balance, apps, leases, payments, propTenants, credited, ledgerGap, pre, overlap, Properties, locations >>

\* The Payment row of a deposit request.
DepositRequest(leaseId, amount, user) ==
  [leaseId |-> leaseId, amountDue |-> amount, amountPaid |-> 0,
   paymentStatus |-> "Pending", type |-> "Deposit", isApproved |-> FALSE,
   tenantCognitoId |-> user, destination |-> NoDestination, paymentDate |-> Now]

\* const deposit = await prisma.payment.create(...); 201
cdr_create(r) ==
  /\ req[r].pc = "cdr_create"
  /\ payments' = Append(payments, DepositRequest(req[r].id, req[r].amount, req[r].user))
  /\ credited' = Append(credited, 0)
  /\ req' = [req EXCEPT ![r].pc = "done", ![r].resp = 201, ![r].made = Len(payments) + 1]
  /\ UNCHANGED << balance, apps, leases, propTenants, ledgerGap, pre, overlap, Properties, locations >>

\* ---- PUT /payments/deposits/:id/approve (approveDeposit) ----

approveDeposit(r) ==
  \E id \in PathIds(Len(payments)) :
    /\ Begin(r, [Idle EXCEPT !.op = "approveDeposit", !.pc = "ad_findPayment", !.id = id])
    /\ UNCHANGED << balance, apps, leases, payments, propTenants, credited, ledgerGap, Properties, locations >>

\* const p = await prisma.payment.findUnique(...); 404 when absent, 400 without a lease.
\* The call throws for an id that is NaN (caught: 500).
ad_findPayment(r) ==
  /\ req[r].pc = "ad_findPayment"
  /\ IF req[r].id = NaN THEN Throw(r, ValidationError)
     ELSE IF req[r].id \notin DOMAIN payments THEN Respond(r, 404)
     ELSE IF payments[req[r].id].leaseId = 0 THEN Respond(r, 400)
     ELSE Goto(r, "ad_findLease")
  /\ UNCHANGED << balance, apps, leases, payments, propTenants, credited, ledgerGap, pre, overlap, Properties, locations >>

\* const lease = await prisma.lease.findUnique(...); 404 when absent.
ad_findLease(r) ==
  /\ req[r].pc = "ad_findLease"
  /\ IF payments[req[r].id].leaseId \notin DOMAIN leases
       THEN Respond(r, 404)
       ELSE Goto(r, "ad_txUpdatePayment")
  /\ UNCHANGED << balance, apps, leases, payments, propTenants, credited, ledgerGap, pre, overlap, Properties, locations >>

\* tx.payment.update(...): takes the payment's row lock; visible at commit.
ad_txUpdatePayment(r) ==
  /\ req[r].pc = "ad_txUpdatePayment"
  /\ ~PaymentLocked(r, req[r].id)
  /\ Goto(r, "ad_txFindTenant")
  /\ UNCHANGED << balance, apps, leases, payments, propTenants, credited, ledgerGap, pre, overlap, Properties, locations >>

\* const tenant = await tx.tenant.findUnique(...)
ad_txFindTenant(r) ==
  /\ req[r].pc = "ad_txFindTenant"
  /\ req' = [req EXCEPT
       ![r].tbal = balance[leases[payments[req[r].id].leaseId].tenantCognitoId],
       ![r].pc = "ad_txUpdateTenant"]
  /\ UNCHANGED << balance, apps, leases, payments, propTenants, credited, ledgerGap, pre, overlap, Properties, locations >>

\* Mutant: the approval marks the payment Paid but leaves isApproved as it was.
ApprovedPayment_FlagNotSet(p) ==
  [p EXCEPT !.paymentStatus = "Paid", !.amountPaid = p.amountDue]

\* The Payment row after approval: data: { isApproved, paymentStatus, amountPaid }.
ApprovedPayment(p) ==
  [p EXCEPT !.isApproved = TRUE, !.paymentStatus = "Paid", !.amountPaid = p.amountDue]

\* Mutant: the credit overwrites the balance with the amount.
CreditedBalance_Overwrites(tbal, amount) == amount

\* The balance written by the credit: the balance read in the transaction plus the amount.
CreditedBalance(tbal, amount) == tbal + amount

\* tx.tenant.update(...), then the callback returns and the transaction commits:
\* the payment update and the balance write take effect together.
ad_txUpdateTenant(r) ==
  /\ req[r].pc = "ad_txUpdateTenant"
  /\ LET id == req[r].id
         p == payments[id]
         t == leases[p.leaseId].tenantCognitoId
     IN /\ ~TenantLocked(r, t)
        /\ payments' = [payments EXCEPT ![id] = ApprovedPayment(p)]
        /\ balance' = [balance EXCEPT ![t] = CreditedBalance(req[r].tbal, p.amountDue)]
        /\ credited' = [credited EXCEPT ![id] = @ + 1]
  /\ Respond(r, 200)
  /\ UNCHANGED << apps, leases, propTenants, ledgerGap, pre, overlap, Properties, locations >>

\* ---- PUT /payments/deposits/:id/decline (declineDeposit) ----

declineDeposit(r) ==
  \E id \in PathIds(Len(payments)) :
    /\ Begin(r, [Idle EXCEPT !.op = "declineDeposit", !.pc = "dd_update", !.id = id])
    /\ UNCHANGED << balance, apps, leases, payments, propTenants, credited, ledgerGap, Properties, locations >>

\* Mutant: the decline also takes back the amount paid.
DeclinedPayment_ClearsPaid(p) == [p EXCEPT !.paymentStatus = "Pending", !.amountPaid = 0]

\* The Payment row after a decline: data: { paymentStatus: "Pending" }.
DeclinedPayment(p) == [p EXCEPT !.paymentStatus = "Pending"]

\* await prisma.payment.update(...): throws when the row is absent or the id
\* is NaN (caught: 500).
dd_update(r) ==
  /\ req[r].pc = "dd_update"
  /\ IF req[r].id \notin DOMAIN payments
       THEN Throw(r, NotFoundError) /\ UNCHANGED payments
       ELSE /\ ~PaymentLocked(r, req[r].id)
            /\ payments' = [payments EXCEPT ![req[r].id] = DeclinedPayment(@)]
            /\ Respond(r, 200)
  /\ UNCHANGED << balance, apps, leases, propTenants, credited, ledgerGap, pre, overlap, Properties, locations >>

\* ---- POST /payments/withdraw (withdrawFunds) ----

\* Entry: 401 without an authenticated user, 400 unless amount > 0 and a
\* destination is given.
withdrawFunds(r) ==
  \E user \in Users, amount \in 0..MaxAmount, dest \in Destinations :
    /\ LET rec == [Idle EXCEPT !.op = "withdrawFunds", !.user = user, !.amount = amount,
                               !.dest = dest]
       IN Begin(r, IF user = NoUser THEN [rec EXCEPT !.resp = 401]
                   ELSE IF amount <= 0 \/ dest = NoDestination THEN [rec EXCEPT !.resp = 400]
                   ELSE [rec EXCEPT !.pc = "wf_findTenant"])
    /\ UNCHANGED << balance, apps, leases, payments, propTenants, credited, ledgerGap, Properties, locations >>

\* const tenant = await prisma.tenant.findUnique(...); 400 when the balance is short.
wf_findTenant(r) ==
  /\ req[r].pc = "wf_findTenant"
  /\ IF req[r].user \notin Tenants
       THEN Respond(r, 400)
       ELSE LET bal == balance[req[r].user]
            IN IF bal < req[r].amount
                 THEN req' = [req EXCEPT ![r].tbal = bal, ![r].pc = "done", ![r].resp = 400]
                 ELSE req' = [req EXCEPT ![r].tbal = bal, ![r].pc = "wf_txUpdateTenant"]
  /\ UNCHANGED << balance, apps, leases, payments, propTenants, credited, ledgerGap, pre, overlap, Properties, locations >>

\* tx.tenant.update(...): takes the tenant's row lock; visible at commit.
wf_txUpdateTenant(r) ==
  /\ req[r].pc = "wf_txUpdateTenant"
  /\ ~TenantLocked(r, req[r].user)
  /\ Goto(r, "wf_txCreatePayment")
  /\ UNCHANGED << balance, apps, leases, payments, propTenants, credited, ledgerGap, pre, overlap, Properties, locations >>

\* The Payment row of a withdrawal.
Withdrawal(amount, user, dest) ==
  [leaseId |-> 0, amountDue |-> 0, amountPaid |-> amount,
   paymentStatus |-> "Paid", type |-> "Withdrawal", isApproved |-> TRUE,
   tenantCognitoId |-> user, destination |-> dest, paymentDate |-> Now]

\* Mutant: the withdrawal empties the balance.
WithdrawnBalance_Empties(tbal, amount) == 0

\* The balance written by a withdrawal: the balance read before the
\* transaction minus the amount.
WithdrawnBalance(tbal, amount) == tbal - amount

\* tx.payment.create(...), then the transaction commits.
wf_txCreatePayment(r) ==
  /\ req[r].pc = "wf_txCreatePayment"
  /\ balance' = [balance EXCEPT ![req[r].user] = WithdrawnBalance(req[r].tbal, req[r].amount)]
  /\ payments' = Append(payments, Withdrawal(req[r].amount, req[r].user, req[r].dest))
  /\ credited' = Append(credited, 0)
  /\ req' = [req EXCEPT ![r].pc = "done", ![r].resp = 200, ![r].made = Len(payments) + 1]
  /\ UNCHANGED << apps, leases, propTenants, ledgerGap, pre, overlap, Properties, locations >>

\* ---- POST /payments/tenants/:cognitoId/fund (fundTenant) ----

\* Entry: 400 unless amount > 0.
fundTenant(r) ==
  \E cognitoId \in Tenants \cup {NoSuchTenant}, amount \in 0..MaxAmount :
    /\ LET rec == [Idle EXCEPT !.op = "fundTenant", !.user = cognitoId, !.amount = amount]
       IN Begin(r, IF amount <= 0 THEN [rec EXCEPT !.resp = 400]
                   ELSE [rec EXCEPT !.pc = "ft_txFindTenant"])
    /\ UNCHANGED << balance, apps, leases, payments, propTenants, credited, ledgerGap, Properties, locations >>

\* const tenant = await tx.tenant.findUnique(...); throws "Tenant not found" (caught: 500).
ft_txFindTenant(r) ==
  /\ req[r].pc = "ft_txFindTenant"
  /\ IF req[r].user \notin Tenants
       THEN Throw(r, "Tenant not found")
       ELSE req' = [req EXCEPT ![r].tbal = balance[req[r].user], ![r].pc = "ft_txUpdateTenant"]
  /\ UNCHANGED << balance, apps, leases, payments, propTenants, credited, ledgerGap, pre, overlap, Properties, locations >>

\* tx.tenant.update(...): takes the tenant's row lock; visible at commit.
ft_txUpdateTenant(r) ==
  /\ req[r].pc = "ft_txUpdateTenant"
  /\ ~TenantLocked(r, req[r].user)
  /\ Goto(r, "ft_txCreatePayment")
  /\ UNCHANGED << balance, apps, leases, payments, propTenants, credited, ledgerGap, pre, overlap, Properties, locations >>

\* Mutant: the funding is recorded as a deposit awaiting approval.
Funding_Unapproved(amount) ==
  [leaseId |-> 0, amountDue |-> 0, amountPaid |-> amount,
   paymentStatus |-> "Paid", type |-> "Deposit", isApproved |-> FALSE,
   tenantCognitoId |-> NoUser, destination |-> NoDestination, paymentDate |-> Now]

\* The Payment row of a manager funding (no lease, no tenantCognitoId).
Funding(amount) ==
  [leaseId |-> 0, amountDue |-> 0, amountPaid |-> amount,
   paymentStatus |-> "Paid", type |-> "Deposit", isApproved |-> TRUE,
   tenantCognitoId |-> NoUser, destination |-> NoDestination, paymentDate |-> Now]

\* tx.payment.create(...), then the transaction commits.
ft_txCreatePayment(r) ==
  /\ req[r].pc = "ft_txCreatePayment"
  /\ balance' = [balance EXCEPT ![req[r].user] = req[r].tbal + req[r].amount]
  /\ payments' = Append(payments, Funding(req[r].amount))
  /\ credited' = Append(credited, 0)
  /\ req' = [req EXCEPT ![r].pc = "done", ![r].resp = 200, ![r].made = Len(payments) + 1]
  /\ UNCHANGED << apps, leases, propTenants, ledgerGap, pre, overlap, Properties, locations >>

\* ---- GET /notifications/messages, /notifications/alerts ----

\* Entry up to the first await: const userId = req.user!.id.
getUserMessages(r) ==
  \E user \in Users :
    /\ Begin(r, [Idle EXCEPT !.op = "getUserMessages", !.pc = "gum_findMany", !.user = user])
    /\ UNCHANGED << balance, apps, leases, payments, propTenants, credited, ledgerGap, Properties, locations >>

\* const msgs = await prisma.notification.findMany(...); res.json(msgs)
gum_findMany(r) ==
  /\ req[r].pc = "gum_findMany"
  /\ Respond(r, 200)
  /\ UNCHANGED << balance, apps, leases, payments, propTenants, credited, ledgerGap, pre, overlap, Properties, locations >>

getUserAlerts(r) ==
  \E user \in Users :
    /\ Begin(r, [Idle EXCEPT !.op = "getUserAlerts", !.pc = "gua_findMany", !.user = user])
    /\ UNCHANGED << balance, apps, leases, payments, propTenants, credited, ledgerGap, Properties, locations >>

\* const alerts = await prisma.notification.findMany(...); res.json(alerts)
gua_findMany(r) ==
  /\ req[r].pc = "gua_findMany"
  /\ Respond(r, 200)
  /\ UNCHANGED << balance, apps, leases, payments, propTenants, credited, ledgerGap, pre, overlap, Properties, locations >>

\* ---- a data-store call that fails ----

\* Awaited calls inside a try block: the catch answers 500.  A transaction
\* that throws is rolled back, so none of its writes is applied.
CaughtCalls ==
  {"ca_findProperty", "ca_create", "gpt_findMany", "lpd_findMany", "gl_findMany", "glp_findMany", "da_findLease",
   "glbp_findMany", "dr_findPayment",
   "gp_findProperty", "gp_queryCoords", "crp_insertLocation", "crp_createProperty",
   "up_findProperty", "up_update", "dp_findProperty", "dp_delete",
   "cp_findLease", "cp_create", "uas_findApp", "uas_findTenant", "uas_debit", "uas_createLease", "uas_createPayment",
   "uas_connect", "uas_updateApp", "uas_updateStatus", "uas_refetch",
   "cdr_create", "ad_findPayment", "ad_findLease", "ad_txUpdatePayment",
   "ad_txFindTenant", "ad_txUpdateTenant", "dd_update",
   "wf_txUpdateTenant", "wf_txCreatePayment",
   "ft_txFindTenant", "ft_txUpdateTenant", "ft_txCreatePayment"}

\* Awaited calls outside any try block: the rejection is unhandled and the
\* request gets no response.
UncaughtCalls == {"cdr_findLease", "wf_findTenant", "gum_findMany", "gua_findMany"}

DbFail(r) ==
  /\ req[r].pc \in CaughtCalls
  /\ \E err \in ErrorTexts : Throw(r, err)
  /\ UNCHANGED << balance, apps, leases, payments, propTenants, credited, ledgerGap, pre, overlap, Properties, locations >>

DbReject(r) ==
  /\ req[r].pc \in UncaughtCalls
  /\ Goto(r, "hung")
  /\ UNCHANGED << balance, apps, leases, payments, propTenants, credited, ledgerGap, pre, overlap, Properties, locations >>

\* ---- specifications ----

ApplicationStep(r) ==
  \/ updateApplicationStatus(r)
  \/ uas_findApp(r)
  \/ uas_findTenant(r)
  \/ uas_debit(r)
  \/ uas_createLease(r)
  \/ uas_createPayment(r)
  \/ uas_connect(r)
  \/ uas_updateApp(r)
  \/ uas_updateStatus(r)
  \/ uas_refetch(r)

DepositStep(r) ==
  \/ createDepositRequest(r)
  \/ cdr_findLease(r)
  \/ cdr_create(r)
  \/ approveDeposit(r)
  \/ ad_findPayment(r)
  \/ ad_findLease(r)
  \/ ad_txUpdatePayment(r)
  \/ ad_txFindTenant(r)
  \/ ad_txUpdateTenant(r)
  \/ declineDeposit(r)
  \/ dd_update(r)

AccessStep(r) ==
  \/ listPendingDeposits(r)
  \/ lpd_findMany(r)
  \/ getLeases(r)
  \/ gl_findMany(r)
  \/ getLeasePayments(r)
  \/ glp_findMany(r)
  \/ downloadAgreement(r)
  \/ da_findLease(r)

SubmissionStep(r) ==
  \/ createApplication(r)
  \/ ca_findProperty(r)
  \/ ca_create(r)

PropertyStep(r) ==
  \/ getProperty(r)
  \/ gp_findProperty(r)
  \/ gp_queryCoords(r)
  \/ createProperty(r)
  \/ crp_geocode(r)
  \/ crp_insertLocation(r)
  \/ crp_createProperty(r)
  \/ updateProperty(r)
  \/ up_findProperty(r)
  \/ up_update(r)
  \/ deleteProperty(r)
  \/ dp_findProperty(r)
  \/ dp_delete(r)
  \/ getLeasesByPropertyId(r)
  \/ glbp_findMany(r)

ReceiptStep(r) ==
  \/ downloadReceipt(r)
  \/ dr_findPayment(r)

HistoryStep(r) ==
  \/ getPaymentsByTenant(r)
  \/ gpt_findMany(r)

PaymentStep(r) ==
  \/ createPayment(r)
  \/ cp_findLease(r)
  \/ cp_create(r)

NotificationStep(r) ==
  \/ getUserMessages(r)
  \/ gum_findMany(r)
  \/ getUserAlerts(r)
  \/ gua_findMany(r)

WithdrawStep(r) ==
  \/ withdrawFunds(r)
  \/ wf_findTenant(r)
  \/ wf_txUpdateTenant(r)
  \/ wf_txCreatePayment(r)

FundStep(r) ==
  \/ fundTenant(r)
  \/ ft_txFindTenant(r)
  \/ ft_txUpdateTenant(r)
  \/ ft_txCreatePayment(r)

\* The application workflow; any call may fail.
NextApproval == \E r \in Reqs : ApplicationStep(r) \/ DbFail(r)

\* Status updates that overlap.  Only t1 has applications: the other tenant's
\* balance starts at 0.
InitApproval == Init /\ balance["t2"] = 0 /\ overlap

SpecApproval == InitApproval /\ [][NextApproval]_vars

\* Status updates served one at a time.
InitApprovalSerial == Init /\ balance["t2"] = 0 /\ ~overlap

SpecApprovalSerial == InitApprovalSerial /\ [][NextApproval]_vars

\* The deposit ledger: deposit requests, approvals and declines.
NextDeposit == \E r \in Reqs : DepositStep(r) \/ DbFail(r) \/ DbReject(r)

\* Deposit requests that overlap.  Only t2 has a lease to deposit on: the other
\* tenant's balance starts at 0.
InitDeposit == Init /\ balance["t1"] = 0 /\ overlap

SpecDeposit == InitDeposit /\ [][NextDeposit]_vars

\* Deposit requests served one at a time.
InitDepositSerial == Init /\ balance["t1"] = 0 /\ ~overlap

SpecDepositSerial == InitDepositSerial /\ [][NextDeposit]_vars

\* Withdrawals only, overlapping.
NextWithdraw == \E r \in Reqs : WithdrawStep(r) \/ DbFail(r) \/ DbReject(r)

InitWithdraw == Init /\ overlap

SpecWithdraw == InitWithdraw /\ [][NextWithdraw]_vars

\* Manager fundings, overlapping.
NextFund == \E r \in Reqs : FundStep(r) \/ DbFail(r)

InitFund == Init /\ overlap

SpecFund == InitFund /\ [][NextFund]_vars

\* Rent payments submitted by tenants, one at a time; no balance is involved.
NextPayment == \E r \in Reqs : PaymentStep(r) \/ DbFail(r)

InitPayment == Init /\ balance = [t \in Tenants |-> 0] /\ ~overlap

SpecPayment == InitPayment /\ [][NextPayment]_vars

\* The queries behind the middleware: requests with any credentials, served
\* one at a time; no balance is involved.
NextAccess == \E r \in Reqs : AccessStep(r) \/ DbFail(r)

InitAccess == Init /\ balance = [t \in Tenants |-> 0] /\ ~overlap

SpecAccess == InitAccess /\ [][NextAccess]_vars

\* The property listings: requests with any credentials, served one at a time.
NextProperty == \E r \in Reqs : PropertyStep(r) \/ DbFail(r)

InitProperty == Init /\ balance = [t \in Tenants |-> 0] /\ ~overlap

SpecProperty == InitProperty /\ [][NextProperty]_vars

\* Applications submitted and their status updated, one request at a time.
NextApplication == \E r \in Reqs : SubmissionStep(r) \/ ApplicationStep(r) \/ DbFail(r)

InitApplication == Init /\ balance["t2"] = 0 /\ ~overlap

SpecApplication == InitApplication /\ [][NextApplication]_vars

\* The deposit, funding and receipt handlers over a store whose calls do not
\* fail: every answer is the handler's own.
NextLookup == \E r \in Reqs : DepositStep(r) \/ FundStep(r) \/ ReceiptStep(r)

InitLookup == Init /\ balance["t1"] = 0 /\ ~overlap

SpecLookup == InitLookup /\ [][NextLookup]_vars

\* The ledger: every handler that creates a Payment row and the two that
\* read one back, served one at a time.
NextLedger ==
  \E r \in Reqs :
    \/ PaymentStep(r)
    \/ ApplicationStep(r)
    \/ DepositStep(r)
    \/ WithdrawStep(r)
    \/ FundStep(r)
    \/ HistoryStep(r)
    \/ ReceiptStep(r)
    \/ DbFail(r)
    \/ DbReject(r)

InitLedger == Init /\ balance = [t \in Tenants |-> MaxInitBalance] /\ ~overlap

SpecLedger == InitLedger /\ [][NextLedger]_vars

\* The handlers that create a Payment row and the receipt handler, served one
\* at a time over a store whose calls do not fail.
NextReceipt ==
  \E r \in Reqs :
    \/ PaymentStep(r)
    \/ ApplicationStep(r)
    \/ DepositStep(r)
    \/ WithdrawStep(r)
    \/ FundStep(r)
    \/ ReceiptStep(r)

InitReceipt == Init /\ balance = [t \in Tenants |-> MaxInitBalance] /\ ~overlap

SpecReceipt == InitReceipt /\ [][NextReceipt]_vars

\* Status updates served one at a time over a store whose calls do not fail.
NextStatus == \E r \in Reqs : ApplicationStep(r)

InitStatus == Init /\ balance["t2"] = 0 /\ ~overlap

SpecStatus == InitStatus /\ [][NextStatus]_vars

\* Every handler that writes a balance, overlapping.
NextBalance ==
  \E r \in Reqs :
    \/ ApplicationStep(r)
    \/ DepositStep(r)
    \/ WithdrawStep(r)
    \/ FundStep(r)
    \/ DbFail(r)
    \/ DbReject(r)

InitBalance == Init /\ overlap

SpecBalance == InitBalance /\ [][NextBalance]_vars

\* Deposit requests, withdrawals and notification queries, overlapping, on
\* an event loop that runs every continuation: a call that is awaited settles,
\* it returns or it throws.
RequestStep(r) ==
  \/ createDepositRequest(r)
  \/ cdr_findLease(r)
  \/ cdr_create(r)
  \/ WithdrawStep(r)
  \/ NotificationStep(r)

NextResponse == \E r \in Reqs : RequestStep(r) \/ DbFail(r) \/ DbReject(r)

InitResponse == Init /\ balance["t1"] = 0 /\ overlap

Settles(r) == InFlight(r) /\ (RequestStep(r) \/ DbFail(r) \/ DbReject(r))

SpecResponse ==
  InitResponse /\ [][NextResponse]_vars /\ \A r \in Reqs : WF_vars(Settles(r))

\* Every handler.
Next ==
  \E r \in Reqs :
    \/ NotificationStep(r)
    \/ HistoryStep(r)
    \/ SubmissionStep(r)
    \/ AccessStep(r)
    \/ PropertyStep(r)
    \/ ReceiptStep(r)
    \/ ApplicationStep(r)
    \/ PaymentStep(r)
    \/ DepositStep(r)
    \/ WithdrawStep(r)
    \/ FundStep(r)
    \/ DbFail(r)
    \/ DbReject(r)

Spec == Init /\ [][Next]_vars

\* ---- claims ----

Done(r) == req[r].pc = "done" /\ req[r].op # "none"

\* Request r takes this step.
Steps(r) == req'[r] # req[r]

\* Request r has been answered and nothing has run since it arrived alone:
\* pre.store is the store as r found it.
RanAlone(r) == Done(r) /\ pre.owner = r

Quiescent == \A r \in Reqs : ~InFlight(r)

Approval(r) == req[r].op = "updateApplicationStatus" /\ req[r].status = "Approved"

\* C1: an approval's writes all take effect or none does: once the request has
\* been answered, either the store is exactly as the request found it, or the
\* last write of the sequence (the application's status and lease reference)
\* has been made.
C1_ApprovalAllOrNothing ==
  \A r \in Reqs :
    (Approval(r) /\ RanAlone(r)) =>
      \/ Store = pre.store
      \/ /\ req[r].newLease # 0
         /\ apps[req[r].id].status = "Approved"
         /\ apps[req[r].id].leaseId = req[r].newLease

\* C2: two withdrawals of one tenant that both read the balance B, each
\* covered by B but not both together, do not both succeed.
C2_NoCombinedOverdraw ==
  \A r1, r2 \in Reqs :
    ( /\ r1 # r2
      /\ req[r1].op = "withdrawFunds" /\ req[r2].op = "withdrawFunds"
      /\ req[r1].user = req[r2].user
      /\ req[r1].tbal = req[r2].tbal
      /\ req[r1].amount <= req[r1].tbal /\ req[r2].amount <= req[r2].tbal
      /\ req[r1].amount + req[r2].amount > req[r1].tbal )
    => ~(Done(r1) /\ req[r1].resp = 200 /\ Done(r2) /\ req[r2].resp = 200)

\* C3: once every request has been answered, every balance write has its Paid
\* ledger write and every Paid ledger write its balance write.
C3_BalanceWithLedgerEntry == Quiescent => ledgerGap = 0

\* C4: a successful approval that ran alone leaves the store as it found it
\* plus one Lease (rent = pricePerMonth, deposit = securityDeposit, the
\* application's tenant and property), one Paid Rent Payment of pricePerMonth
\* on that lease, the tenant among the property's tenants, and the application
\* Approved with the new lease's id; the balance is the old one, less the
\* price when it covered the price.
C4_ApprovalEffects ==
  \A r \in Reqs :
    (Approval(r) /\ RanAlone(r) /\ req[r].resp = 200) =>
      LET old == pre.store
          app == old.apps[req[r].id]
          prop == Properties[app.propertyId]
          n == Len(old.leases) + 1
      IN /\ leases = Append(old.leases,
                [rent |-> prop.pricePerMonth, deposit |-> prop.securityDeposit,
                 propertyId |-> app.propertyId, tenantCognitoId |-> app.tenantCognitoId])
         /\ Len(payments) = Len(old.payments) + 1
         /\ SubSeq(payments, 1, Len(old.payments)) = old.payments
         /\ LET pay == payments[Len(payments)]
            IN /\ pay.leaseId = n
               /\ pay.amountDue = prop.pricePerMonth
               /\ pay.amountPaid = prop.pricePerMonth
               /\ pay.paymentStatus = "Paid"
               /\ pay.type = "Rent"
         /\ propTenants = [old.propTenants EXCEPT ![app.propertyId] = @ \cup {app.tenantCognitoId}]
         /\ apps = [old.apps EXCEPT ![req[r].id] = [app EXCEPT !.status = "Approved", !.leaseId = n]]
         /\ balance = [old.balance EXCEPT ![app.tenantCognitoId] =
                          IF @ >= prop.pricePerMonth THEN @ - prop.pricePerMonth ELSE @]

C4_Witness ==
  \E r \in Reqs : Approval(r) /\ RanAlone(r) /\ req[r].resp = 200

\* C5: the approval's debit takes exactly pricePerMonth off the tenant's
\* balance: when the balance covers the price, the balance after the write is
\* the balance before it less the price, also when an approval of another
\* application has changed the balance since the handler read it.
C5_DebitIsExact ==
  [][ \A r \in Reqs :
        LET app == apps[req[r].id]
            t == app.tenantCognitoId
            price == Properties[app.propertyId].pricePerMonth
        IN ( /\ req[r].pc = "uas_debit" /\ req'[r].pc = "uas_createLease"
             /\ \A o \in Reqs \ {r} : req[o].id # req[r].id
             /\ balance[t] >= price )
           => balance'[t] = balance[t] - price ]_vars

\* C6: a status update other than Approved writes the status of its
\* application and nothing else: no step of such a request changes a lease, a
\* payment, a balance, a property's tenants, another application or the
\* application's lease reference.
C6_NonApprovalChangesStatusOnly ==
  [][ \A r \in Reqs :
        ( /\ req'[r].op = "updateApplicationStatus"
          /\ req'[r].status # "Approved"
          /\ Steps(r) ) =>
          /\ leases' = leases
          /\ payments' = payments
          /\ balance' = balance
          /\ propTenants' = propTenants
          /\ \A a \in DOMAIN apps :
               /\ a # req'[r].id => apps'[a] = apps[a]
               /\ apps'[a] = [apps[a] EXCEPT !.status = apps'[a].status]
          /\ (req[r].pc = "uas_updateStatus" /\ req'[r].pc = "uas_refetch")
               => apps'[req[r].id].status = req[r].status ]_vars

\* A denied application that was approved before: its lease reference is kept.
C6_Witness ==
  \E r \in Reqs :
    /\ Done(r) /\ req[r].op = "updateApplicationStatus" /\ req[r].resp = 200
    /\ req[r].status = "Denied"
    /\ apps[req[r].id].status = "Denied"
    /\ apps[req[r].id].leaseId # 0

\* C7: the approval effects are performed at most once per application: at
\* most one request creates a lease for it.
C7_ApprovedAtMostOnce ==
  \A a \in DOMAIN apps :
    Cardinality({r \in Reqs : Approval(r) /\ req[r].id = a /\ req[r].newLease # 0}) <= 1

\* C8: a deposit is credited only on approval: createDepositRequest adds a
\* Pending, unapproved Deposit payment with amountPaid 0 and changes no
\* balance, and no Deposit payment with isApproved = FALSE has been credited.
C8_UnapprovedDepositNotCredited ==
  /\ [](\A id \in DOMAIN payments :
          (payments[id].type = "Deposit" /\ ~payments[id].isApproved) => credited[id] = 0)
  /\ [][ \A r \in Reqs :
           (req'[r].op = "createDepositRequest" /\ Steps(r)) =>
             /\ balance' = balance
             /\ req'[r].resp = 201 =>
                  /\ Len(payments') = Len(payments) + 1
                  /\ LET pay == payments'[Len(payments')]
                     IN /\ pay.paymentStatus = "Pending"
                        /\ ~pay.isApproved
                        /\ pay.amountPaid = 0
                        /\ pay.type = "Deposit"
                        /\ pay.amountDue = req[r].amount ]_vars

\* A new deposit request sits uncredited while another deposit has been credited.
C8_Witness ==
  \E r \in Reqs :
    /\ Done(r) /\ req[r].op = "createDepositRequest" /\ req[r].resp = 201
    /\ ~payments[Len(payments)].isApproved
    /\ credited[Len(payments)] = 0
    /\ \E id \in DOMAIN payments : credited[id] > 0

\* C9: an approveDeposit that succeeds adds exactly the payment's amountDue to
\* the balance of the tenant of the payment's lease and makes the payment
\* Paid, approved, amountPaid = amountDue, changing nothing else; one that
\* does not succeed changes nothing.
C9_ApproveCreditsExactly ==
  \A r \in Reqs :
    (req[r].op = "approveDeposit" /\ RanAlone(r)) =>
      IF req[r].resp = 200
        THEN LET old == pre.store
                 p == old.payments[req[r].id]
                 t == old.leases[p.leaseId].tenantCognitoId
             IN /\ balance = [old.balance EXCEPT ![t] = @ + p.amountDue]
                /\ payments = [old.payments EXCEPT ![req[r].id] =
                      [p EXCEPT !.paymentStatus = "Paid", !.isApproved = TRUE,
                                !.amountPaid = p.amountDue]]
                /\ leases = old.leases /\ apps = old.apps /\ propTenants = old.propTenants
        ELSE Store = pre.store

C9_Witness ==
  \E r \in Reqs :
    /\ req[r].op = "approveDeposit" /\ RanAlone(r) /\ req[r].resp = 200
    /\ balance["t2"] > pre.store.balance["t2"]

\* C10: declineDeposit changes no balance and sets the payment's status to
\* Pending, leaving the payment's other fields and every other row alone.
C10_DeclineResetsStatusOnly ==
  [][ \A r \in Reqs :
        (req'[r].op = "declineDeposit" /\ Steps(r)) =>
          /\ balance' = balance
          /\ leases' = leases /\ apps' = apps /\ propTenants' = propTenants
          /\ IF req'[r].resp = 200
               THEN payments' = [payments EXCEPT ![req[r].id].paymentStatus = "Pending"]
               ELSE payments' = payments ]_vars

\* A deposit that was approved and credited, then declined: Pending again.
C10_Witness ==
  \E r \in Reqs :
    /\ Done(r) /\ req[r].op = "declineDeposit" /\ req[r].resp = 200
    /\ credited[req[r].id] > 0
    /\ payments[req[r].id].paymentStatus = "Pending"

\* C11: a withdrawFunds request of amount A > 0 with a destination, answered
\* with success, found a balance of at least A and leaves the balance lower by
\* exactly A and one more Payment (Withdrawal, amountPaid = A, Paid, the given
\* destination, the tenant's id), nothing else changed; with a balance of at
\* least A it is answered with success unless a store call failed; with a
\* balance below A it is answered 400; answered with anything but success it
\* has changed nothing.
C11_WithdrawEffects ==
  \A r \in Reqs :
    (req[r].op = "withdrawFunds" /\ RanAlone(r)) =>
      LET old == pre.store
          t == req[r].user
          A == req[r].amount
      IN /\ req[r].resp = 200 =>
              /\ A > 0 /\ t \in Tenants /\ old.balance[t] >= A
              /\ balance = [old.balance EXCEPT ![t] = @ - A]
              /\ payments = Append(old.payments,
                    [leaseId |-> 0, amountDue |-> 0, amountPaid |-> A,
                     paymentStatus |-> "Paid", type |-> "Withdrawal", isApproved |-> TRUE,
                     tenantCognitoId |-> t, destination |-> req[r].dest,
                     paymentDate |-> Len(old.payments) + 1])
              /\ req[r].dest # NoDestination
              /\ leases = old.leases /\ apps = old.apps /\ propTenants = old.propTenants
         /\ req[r].resp # 200 => Store = old
         /\ (A > 0 /\ req[r].dest # NoDestination /\ t \in Tenants) =>
              IF old.balance[t] >= A THEN req[r].resp \in {200, 500}
                                    ELSE req[r].resp = 400

\* A withdrawal that leaves part of the balance.
C11_Witness ==
  \E r \in Reqs :
    /\ req[r].op = "withdrawFunds" /\ RanAlone(r) /\ req[r].resp = 200
    /\ balance[req[r].user] > 0

\* A withdrawal refused for insufficient funds.
C11_WitnessRefused ==
  \E r \in Reqs :
    /\ req[r].op = "withdrawFunds" /\ RanAlone(r) /\ req[r].resp = 400
    /\ req[r].amount > 0 /\ req[r].dest # NoDestination /\ req[r].user \in Tenants

\* C12: a fundTenant request of amount A answered with success had A > 0 and
\* an existing tenant, and leaves that tenant's balance higher by exactly A and
\* one more Payment (Deposit, amountPaid = A, Paid, isApproved), nothing else
\* changed; for a missing tenant or A <= 0 the answer is an error; answered
\* with an error, also after a failure inside the transaction, it has changed
\* nothing.
C12_FundEffects ==
  \A r \in Reqs :
    (req[r].op = "fundTenant" /\ RanAlone(r)) =>
      LET old == pre.store
          t == req[r].user
          A == req[r].amount
      IN /\ req[r].resp = 200 =>
              /\ A > 0 /\ t \in Tenants
              /\ balance = [old.balance EXCEPT ![t] = @ + A]
              /\ Len(payments) = Len(old.payments) + 1
              /\ SubSeq(payments, 1, Len(old.payments)) = old.payments
              /\ LET pay == payments[Len(payments)]
                 IN /\ pay.type = "Deposit" /\ pay.amountPaid = A
                    /\ pay.paymentStatus = "Paid" /\ pay.isApproved
              /\ leases = old.leases /\ apps = old.apps /\ propTenants = old.propTenants
         /\ (A <= 0 \/ t \notin Tenants) => req[r].resp >= 400
         /\ req[r].resp # 200 => (req[r].resp >= 400 /\ Store = old)

\* A funding of an existing tenant that succeeded.
C12_Witness ==
  \E r \in Reqs :
    /\ req[r].op = "fundTenant" /\ RanAlone(r) /\ req[r].resp = 200
    /\ balance[req[r].user] = pre.store.balance[req[r].user] + req[r].amount

\* A funding of a tenant that does not exist, refused.
C12_WitnessMissing ==
  \E r \in Reqs :
    /\ req[r].op = "fundTenant" /\ RanAlone(r) /\ req[r].amount > 0
    /\ req[r].user = NoSuchTenant /\ req[r].resp >= 400

\* C13: the Payment that createPayment adds is Paid if its amountPaid >=
\* amountDue, PartiallyPaid if 0 < amountPaid < amountDue, otherwise Pending,
\* never Overdue; and a createPayment for a leaseId that matches no Lease is
\* answered 400 and adds no Payment.
C13_StatusFromAmounts ==
  [][ \A r \in Reqs :
        (req'[r].op = "createPayment" /\ Steps(r)) =>
          /\ req'[r].resp = 201 =>
               /\ Len(payments') = Len(payments) + 1
               /\ LET pay == payments'[Len(payments')]
                  IN /\ pay.amountPaid = req'[r].paid /\ pay.amountDue = req'[r].amount
                     /\ pay.paymentStatus =
                          IF pay.amountPaid >= pay.amountDue THEN "Paid"
                          ELSE IF pay.amountPaid > 0 THEN "PartiallyPaid"
                          ELSE "Pending"
          /\ req'[r].resp # 201 => payments' = payments
          /\ (req[r].pc = "cp_findLease" /\ req[r].id \notin DOMAIN leases)
               => req'[r].resp \in {400, 500} ]_vars

\* C14: on a route built with authMiddleware(allow-list), the handler is called
\* only for a request whose token decodes to a payload with a subject and a
\* role claim that, lower-cased, is in the allow-list, and then req.user is
\* that subject and role; a request with no Authorization header is answered
\* 401 and one whose role is not in the allow-list 403, the handler not being
\* called; so a tenant's token gets 403 from the middleware of every
\* manager-only route.
C14_MiddlewareGuards ==
  /\ \A r \in Reqs :
       req[r].op \in DOMAIN AllowedRoles =>
         LET allow == AllowedRoles[req[r].op]
             decoded == req[r].header = "Bearer jwt" /\ req[r].sub # ""
             lowered == IF req[r].claim = "Manager" THEN "manager" ELSE req[r].claim
         IN /\ req[r].called =>
                 /\ decoded /\ lowered \in allow
                 /\ req[r].user = req[r].sub /\ req[r].role = lowered
            /\ req[r].header = "none" => (req[r].resp = 401 /\ ~req[r].called)
            /\ (decoded /\ lowered \notin allow) => (req[r].resp = 403 /\ ~req[r].called)
  /\ \A op \in DOMAIN AllowedRoles :
       AllowedRoles[op] = {"manager"} =>
         authMiddleware(AllowedRoles[op],
                        [header |-> "Bearer jwt", sub |-> "t1", claim |-> "tenant"]).status = 403

\* A manager's token with the role in capitals has been let through to a
\* manager-only handler, and a tenant's token refused there.
C14_Witness ==
  \E r1, r2 \in Reqs :
    /\ req[r1].op = "listPendingDeposits" /\ req[r1].called /\ req[r1].claim = "Manager"
    /\ Done(r1) /\ req[r1].resp = 200
    /\ req[r2].op = "listPendingDeposits" /\ req[r2].claim = "tenant" /\ req[r2].resp = 403

\* C15: getLeases, getLeasePayments and downloadAgreement are called only for
\* a request whose token carries the role manager or tenant.
C15_LeaseRoutesGuarded ==
  \A r \in Reqs :
    (req[r].op \in {"getLeases", "getLeasePayments", "downloadAgreement"} /\ req[r].called) =>
      /\ req[r].header = "Bearer jwt"
      /\ toLowerCase(req[r].claim) \in {"manager", "tenant"}

\* C16: a Property row is changed or removed only by its owner: a step of an
\* updateProperty or deleteProperty request that changes a row is taken for a
\* request whose user id is the row's managerCognitoId.
C16_OnlyOwnerChangesProperty ==
  [][ \A r \in Reqs : \A id \in DOMAIN Properties :
        ( /\ Steps(r)
          /\ req[r].op \in {"updateProperty", "deleteProperty"}
          /\ Properties'[id] # Properties[id] )
        => req[r].user = Properties[id].managerCognitoId ]_vars

\* C17: once a createProperty request has been answered, every Location row
\* it added is the location of a Property row; and a request answered 400
\* for want of coordinates has added neither a Location nor a Property.
C17_LocationWithProperty ==
  \A r \in Reqs :
    (req[r].op = "createProperty" /\ RanAlone(r)) =>
      /\ \A l \in DOMAIN locations :
           l \notin DOMAIN pre.store.locations =>
             \E id \in DOMAIN Properties : Properties[id].locationId = l
      /\ req[r].resp = 400 =>
           (locations = pre.store.locations /\ Properties = pre.store.Properties)

\* C18: the Application row that createApplication adds has status Pending
\* and no lease reference, whatever the body contains; and a row becomes
\* Approved only in a step of an updateApplicationStatus request.
C18_ApplicationsStartPending ==
  [][ /\ \A r \in Reqs :
          (Steps(r) /\ req[r].op = "createApplication" /\ Len(apps') > Len(apps)) =>
            /\ apps'[Len(apps')].status = "Pending"
            /\ apps'[Len(apps')].leaseId = 0
      /\ \A a \in DOMAIN apps' :
          ( /\ apps'[a].status = "Approved"
            /\ a \in DOMAIN apps => apps[a].status # "Approved" )
          => \E r \in Reqs : Steps(r) /\ req[r].op = "updateApplicationStatus" ]_vars

\* The handlers that take a numeric id path parameter.
IdHandlers ==
  {"getProperty", "updateProperty", "deleteProperty", "getLeasePayments",
   "getLeasesByPropertyId", "downloadAgreement", "downloadReceipt",
   "approveDeposit", "declineDeposit", "updateApplicationStatus"}

\* The handler of request r has been called (the routes of these three
\* handlers are modelled from the handler on).
HandlerCalled(r) ==
  \/ req[r].called
  \/ req[r].op \in {"approveDeposit", "declineDeposit", "updateApplicationStatus",
                    "fundTenant"}

\* C19: a handler with a numeric id path parameter, called with an id that is
\* not a number, answers 400 and writes nothing.
C19_MalformedIdIs400 ==
  \A r \in Reqs :
    (req[r].op \in IdHandlers /\ HandlerCalled(r) /\ req[r].id = NaN /\ RanAlone(r)) =>
      (req[r].resp = 400 /\ Store = pre.store)

\* C20: approveDeposit and declineDeposit for an id of no Payment, and
\* fundTenant (amount > 0) for a cognito id of no Tenant, answer 404 and
\* change nothing.
C20_MissingEntityIs404 ==
  \A r \in Reqs :
    ( /\ RanAlone(r) /\ HandlerCalled(r)
      /\ \/ /\ req[r].op \in {"approveDeposit", "declineDeposit"}
            /\ req[r].id # NaN /\ req[r].id \notin DOMAIN pre.store.payments
         \/ /\ req[r].op = "fundTenant"
            /\ req[r].amount > 0 /\ req[r].user \notin Tenants )
    => (req[r].resp = 404 /\ Store = pre.store)

\* C21: the body of a 500 answer is a generic message that does not depend on
\* the error the failing call threw: two requests that are the same in
\* everything but the body of their answer, both answered 500, carry the
\* same message.
C21_GenericFailureMessage ==
  \A r1, r2 \in Reqs :
    ( /\ Done(r1) /\ Done(r2)
      /\ req[r1].resp = 500
      /\ [req[r1] EXCEPT !.msg = ""] = [req[r2] EXCEPT !.msg = ""] )
    => req[r1].msg = req[r2].msg

\* C22: every request that has arrived is eventually answered, also when a
\* data-store call of its handler fails.
C22_EveryRequestAnswered ==
  \A r \in Reqs : (req[r].op # "none") ~> Done(r)

\* The payments of tenant t: the payments on t's leases, the payments with
\* t's id, and the fundings of t.
PaymentsOf(t) ==
  {id \in DOMAIN payments :
     \/ /\ payments[id].leaseId \in DOMAIN leases
        /\ leases[payments[id].leaseId].tenantCognitoId = t
     \/ payments[id].tenantCognitoId = t
     \/ \E o \in Reqs : req[o].op = "fundTenant" /\ req[o].user = t /\ req[o].made = id}

\* C23: getPaymentsByTenant for tenant T answers with all payments of T and
\* only those (the rent payments on T's leases, T's deposit requests, the
\* fundings of T and T's withdrawals), each once, newest paymentDate first.
C23_TenantPaymentHistory ==
  \A r \in Reqs :
    (req[r].op = "getPaymentsByTenant" /\ RanAlone(r) /\ req[r].resp = 200) =>
      LET result == req[r].result
      IN /\ {result[i] : i \in DOMAIN result} = PaymentsOf(req[r].tenant)
         /\ \A i, j \in DOMAIN result :
              i < j => /\ result[i] # result[j]
                       /\ payments[result[i]].paymentDate >= payments[result[j]].paymentDate

\* The amount a rendered text of digits reads as: the digits before the point,
\* if the digits after it are zeros; -1 for any other text.
RenderedAmount(text) ==
  IF \E i \in DOMAIN text :
       /\ text[i] = Point /\ i > 1
       /\ \A j \in DOMAIN text : (j < i => text[j] < Point) /\ (j > i => text[j] = 0)
    THEN parseFloat(SubSeq(text, 1, (CHOOSE i \in DOMAIN text : text[i] = Point) - 1))
    ELSE -1

\* C24: downloadReceipt for a Payment row, whichever operation created it,
\* answers 200 with a document whose amount-paid and status fields are the
\* row's amountPaid and paymentStatus; two receipts of the same unchanged
\* payment have the same fields.
C24_ReceiptMatchesPayment ==
  /\ \A r \in Reqs :
       ( /\ req[r].op = "downloadReceipt" /\ req[r].called /\ RanAlone(r)
         /\ req[r].id \in DOMAIN payments ) =>
         /\ req[r].resp = 200
         /\ RenderedAmount(req[r].docAmount) = payments[req[r].id].amountPaid
         /\ req[r].docStatus = payments[req[r].id].paymentStatus
  /\ \A r1, r2 \in Reqs :
       ( /\ req[r1].op = "downloadReceipt" /\ req[r2].op = "downloadReceipt"
         /\ req[r1].called /\ req[r2].called /\ Done(r1) /\ Done(r2)
         /\ req[r1].id = req[r2].id ) =>
         /\ req[r1].resp = req[r2].resp
         /\ req[r1].docAmount = req[r2].docAmount
         /\ req[r1].docStatus = req[r2].docStatus

\* The sum of f over the set S.
RECURSIVE Sum(_, _)
Sum(f, S) ==
  IF S = {} THEN 0
  ELSE LET x == CHOOSE y \in S : TRUE IN f[x] + Sum(f, S \ {x})

\* What the ledger records for tenant t in this step: the deposits of t's
\* leases that become approved and the fundings of t recorded, less the
\* withdrawals of t recorded and the rent an approval of t's application
\* debits.
LedgerDelta(t) ==
  LET approved == {id \in DOMAIN payments :
                     /\ payments[id].type = "Deposit"
                     /\ ~payments[id].isApproved /\ payments'[id].isApproved
                     /\ payments[id].leaseId \in DOMAIN leases
                     /\ leases[payments[id].leaseId].tenantCognitoId = t}
      new == DOMAIN payments' \ DOMAIN payments
      funded == {id \in new : \E r \in Reqs :
                   /\ req'[r].op = "fundTenant" /\ req'[r].user = t /\ req'[r].made = id}
      withdrawn == {id \in new : /\ payments'[id].type = "Withdrawal"
                                 /\ payments'[id].tenantCognitoId = t}
      debiting == {r \in Reqs : /\ req[r].op = "updateApplicationStatus"
                                /\ req[r].id \in DOMAIN apps
                                /\ apps[req[r].id].tenantCognitoId = t}
  IN Sum([id \in approved |-> payments[id].amountDue], approved)
       + Sum([id \in funded |-> payments'[id].amountPaid], funded)
       - Sum([id \in withdrawn |-> payments'[id].amountPaid], withdrawn)
       - Sum([r \in debiting |-> req'[r].debit - req[r].debit], debiting)

\* C25: each tenant's balance follows the ledger, whatever the interleaving:
\* every step changes the balance by exactly what it records (an approved
\* deposit or a funding added, a withdrawal or an approval's rent taken off),
\* so that the balance is always the initial balance plus the credits minus
\* the debits and none is lost.
C25_BalanceFollowsLedger ==
  [][ \A t \in Tenants : balance'[t] = balance[t] + LedgerDelta(t) ]_vars

\* C26: a deposit request is credited at most once, and only while it is an
\* unapproved payment of type Deposit: no payment has been credited twice, and
\* a step of approveDeposit that changes a balance is taken for a payment of
\* type Deposit that is not approved yet.
C26_DepositCreditedOnce ==
  /\ [](\A id \in DOMAIN payments : credited[id] <= 1)
  /\ [][ \A r \in Reqs :
           (req[r].op = "approveDeposit" /\ Steps(r) /\ balance' # balance) =>
             /\ payments[req[r].id].type = "Deposit"
             /\ ~payments[req[r].id].isApproved ]_vars

\* C27: no tenant's balance is negative.
C27_BalanceNeverNegative == \A t \in Tenants : balance[t] >= 0

\* Two withdrawals of one tenant that overlapped, each covered by the balance
\* they read but not both together, have both been recorded, and the balance
\* is 0.
C27_Witness ==
  \E r1, r2 \in Reqs :
    /\ r1 # r2
    /\ req[r1].op = "withdrawFunds" /\ req[r2].op = "withdrawFunds"
    /\ req[r1].user = req[r2].user
    /\ req[r1].resp = 200 /\ req[r2].resp = 200
    /\ req[r1].amount + req[r2].amount > req[r1].tbal
    /\ balance[req[r1].user] = 0

\* C28: a Payment of type Deposit is approved exactly when it is Paid; one
\* that has been credited is approved and Paid with amountPaid = amountDue,
\* the amount credited; one that is not approved has not been credited.
C28_ApprovedIffPaid ==
  \A id \in DOMAIN payments :
    payments[id].type = "Deposit" =>
      /\ payments[id].isApproved <=> payments[id].paymentStatus = "Paid"
      /\ credited[id] > 0 =>
           /\ payments[id].isApproved /\ payments[id].paymentStatus = "Paid"
           /\ payments[id].amountPaid = payments[id].amountDue
      /\ ~payments[id].isApproved => credited[id] = 0

\* C29: between requests, an Application has a lease reference and its tenant
\* among the tenants of its property exactly when its status is Approved.
C29_LeaseIffApproved ==
  Quiescent =>
    \A a \in DOMAIN apps :
      LET app == apps[a]
      IN IF app.status = "Approved"
           THEN app.leaseId # 0 /\ app.tenantCognitoId \in propTenants[app.propertyId]
           ELSE app.leaseId = 0 /\ app.tenantCognitoId \notin propTenants[app.propertyId]

\* C30: every Payment row has a lease or a tenantCognitoId, and with both the
\* lease is a lease of that tenant.
C30_PaymentHasOneTenant ==
  \A id \in DOMAIN payments :
    LET p == payments[id]
    IN /\ p.leaseId # 0 \/ p.tenantCognitoId # NoUser
       /\ (p.leaseId # 0 /\ p.tenantCognitoId # NoUser) =>
            /\ p.leaseId \in DOMAIN leases
            /\ leases[p.leaseId].tenantCognitoId = p.tenantCognitoId

====
